---- MODULE Spec2Model ----
(***************************************************************************)
(* Model of torch/fx/experimental/meta_tracer.py: the constructor wrappers, *)
(* MetaProxy / MetaAttribute, proxys_to_metas and MetaTracer (create_proxy, *)
(* call_module, path_of_module, trace).                                     *)
(***************************************************************************)
EXTENDS Integers, Sequences, FiniteSets, TLC

VARIABLES torchNS,      \* the attributes of the torch module that trace() patches
          pc,           \* per tracer: "idle" or "tracing" (inside super().trace)
          meta_args,    \* per tracer: self.meta_args
          patched,      \* per tracer: self.patched_torch_methods, name -> <<wrapper, orig>>
          orig_fns,     \* per tracer: self.orig_fns
          orig_forward, \* per tracer: self.orig_forward (unset until call_module)
          root,         \* the root module of the running trace: attribute names and children
          graph,        \* the nodes created so far, in order
          proxies,      \* the proxy objects alive, indexed by identity
          ev            \* what the last operation did: result, exception, warnings, eager calls

vars == <<torchNS, pc, meta_args, patched, orig_fns, orig_forward, root, graph, proxies, ev>>

----------------------------------------------------------------------------
(* Bounds *)
MaxNodes == 3      \* nodes per graph
MaxProxies == 5    \* proxy objects alive (the foreign proxy included)
MaxReq == 2        \* graph length up to which forward asks for nodes and calls constructors
MaxSuffix == 2     \* numeric suffixes 0..MaxSuffix-1 may be taken on the root beforehand
MaxDim == 2        \* dimension indices 0..MaxDim-1 asked of size()
MaxDepth == 2      \* wrappers around a constructor when overlapping traces start

Tracers == {1, 2}
ForeignTracer == 0  \* a plain torch.fx.Tracer owning the one plain torch.fx.Proxy

----------------------------------------------------------------------------
(* Function objects: the originals of the torch namespace, the wrappers made *)
(* by gen_constructor_wrapper, builtins, and plain names used as targets.    *)
_TORCH_METHODS_TO_PATCH == <<"arange", "zeros", "ones", "full_like", "eye">>

PatchNames == {_TORCH_METHODS_TO_PATCH[i] : i \in DOMAIN _TORCH_METHODS_TO_PATCH}

OrigFn(n) == [fn |-> "orig", name |-> n, by |-> 0, lvl |-> 0]

Builtin(n) == [fn |-> "builtin", name |-> n, by |-> 0, lvl |-> 0]

NameT(n) == [fn |-> "name", name |-> n, by |-> 0, lvl |-> 0]

NoFn == [fn |-> "none", name |-> "", by |-> 0, lvl |-> 0]

\* gen_constructor_wrapper(target) made by tracer t: returns (wrapper, target)
gen_constructor_wrapper(t, target) ==
    << [fn |-> "wrapper", name |-> target.name, by |-> t, lvl |-> target.lvl + 1], target >>

OrigNS == [n \in PatchNames |-> OrigFn(n)]

----------------------------------------------------------------------------
(* Values passed as arguments and held as metadata *)
IntV(i) == [k |-> "int", n |-> i, str |-> "", dims |-> <<>>, items |-> <<>>]

StrV(s) == [k |-> "str", n |-> 0, str |-> s, dims |-> <<>>, items |-> <<>>]

NoneV == [k |-> "none", n |-> 0, str |-> "", dims |-> <<>>, items |-> <<>>]

ProxyV(p) == [k |-> "proxy", n |-> p, str |-> "", dims |-> <<>>, items |-> <<>>]

ListV(xs) == [k |-> "list", n |-> 0, str |-> "", dims |-> <<>>, items |-> xs]

\* a meta tensor of the given shape
MetaV(d) == [k |-> "meta", n |-> 0, str |-> "", dims |-> d, items |-> <<>>]

\* torch.Size
SizeV(d) == [k |-> "size", n |-> 0, str |-> "", dims |-> d, items |-> <<>>]

----------------------------------------------------------------------------
(* Dictionaries (kwargs, meta_args): ordered sequences of <<key, value>> *)
HasKey(d, key) == \E i \in DOMAIN d : d[i][1] = key

Get(d, key) == d[CHOOSE i \in DOMAIN d : d[i][1] = key][2]

SetKey(d, key, val) == [i \in DOMAIN d |-> IF d[i][1] = key THEN <<key, val>> ELSE d[i]]

Values(d) == [i \in DOMAIN d |-> d[i][2]]

----------------------------------------------------------------------------
(* Proxy objects.  cls is the Python class; node = 0 is MetaAttribute._node  *)
(* = None; hasMeta says whether the attribute _tensor_meta exists.           *)
MetaProxy(t, node) ==
    [cls |-> "MetaProxy", tracer |-> t, node |-> node, hasMeta |-> FALSE,
     meta |-> NoneV, root |-> 0, attr |-> ""]

MetaAttribute(rootId, rootTracer, attr) ==
    [cls |-> "MetaAttribute", tracer |-> rootTracer, node |-> 0, hasMeta |-> FALSE,
     meta |-> NoneV, root |-> rootId, attr |-> attr]

\* a torch.fx.Proxy of a plain tracer, whose node lives in another graph
ForeignProxy ==
    [cls |-> "Proxy", tracer |-> ForeignTracer, node |-> -1, hasMeta |-> FALSE,
     meta |-> NoneV, root |-> 0, attr |-> ""]

install_tensor_meta(ps, p, val) ==
    [ps EXCEPT ![p] = [@ EXCEPT !.hasMeta = TRUE, !.meta = val]]

\* hasattr(self, '_tensor_meta') and self._tensor_meta is not None
MetaPresent(pr) == pr.hasMeta /\ pr.meta # NoneV

----------------------------------------------------------------------------
(* torch.fx.node.map_aggregate, specialised to the two functions mapped     *)
RECURSIVE check_has_proxy(_, _)
\* the proxy left in the nonlocal after mapping check_has_proxy over v
check_has_proxy(v, cur) ==
    IF v.k = "proxy" THEN v.n
    ELSE IF v.k = "list" THEN
        IF v.items = <<>> THEN cur
        ELSE check_has_proxy(ListV(Tail(v.items)), check_has_proxy(Head(v.items), cur))
    ELSE cur

\* proxys_to_metas without the assertion on _tensor_meta
MetaOf_unchecked(pr) ==
    IF pr.cls = "Proxy" THEN [ok |-> FALSE, v |-> NoneV]
    ELSE [ok |-> TRUE, v |-> pr.meta]

\* proxys_to_metas on a proxy: [ok, v], ok = FALSE when one of the two
\* assertions fails
MetaOf(pr) ==
    IF pr.cls = "Proxy" THEN [ok |-> FALSE, v |-> NoneV]
    ELSE IF ~pr.hasMeta THEN [ok |-> FALSE, v |-> NoneV]
    ELSE [ok |-> TRUE, v |-> pr.meta]

\* a proxys_to_metas that returns None for what is not a proxy
extract_metadata_drop(ps, v) ==
    IF v.k = "proxy" THEN MetaOf(ps[v.n]) ELSE [ok |-> TRUE, v |-> NoneV]

\* proxys_to_metas(v) on one value, a container included: [ok, v]
extract_metadata(ps, v) ==
    IF v.k = "proxy" THEN MetaOf(ps[v.n]) ELSE [ok |-> TRUE, v |-> v]

\* proxys_to_metas applied to the arguments as a whole, without map_aggregate
proxys_to_metas_shallow(ps, v) == extract_metadata(ps, v)

RECURSIVE proxys_to_metas(_, _)
\* map_aggregate(v, proxys_to_metas): [ok, v]
proxys_to_metas(ps, v) ==
    IF v.k = "list" THEN
        LET rs == [i \in DOMAIN v.items |-> proxys_to_metas(ps, v.items[i])]
        IN  IF \A i \in DOMAIN rs : rs[i].ok
            THEN [ok |-> TRUE, v |-> ListV([i \in DOMAIN rs |-> rs[i].v])]
            ELSE [ok |-> FALSE, v |-> NoneV]
    ELSE extract_metadata(ps, v)

RECURSIVE ProxiesIn(_)
\* the proxies occurring in v, in the order create_arg meets them
ProxiesIn(v) ==
    IF v.k = "proxy" THEN <<v.n>>
    ELSE IF v.k = "list" THEN
        IF v.items = <<>> THEN <<>>
        ELSE ProxiesIn(Head(v.items)) \o ProxiesIn(ListV(Tail(v.items)))
    ELSE <<>>

NodeV(n) == [k |-> "node", n |-> n, str |-> "", dims |-> <<>>, items |-> <<>>]

RECURSIVE ToNodeArg(_, _)
\* create_arg: every proxy is replaced by its node
ToNodeArg(ps, v) ==
    IF v.k = "proxy" THEN NodeV(ps[v.n].node)
    ELSE IF v.k = "list" THEN ListV([i \in DOMAIN v.items |-> ToNodeArg(ps, v.items[i])])
    ELSE v

----------------------------------------------------------------------------
(* The heap an operation works on, and what it leaves behind:               *)
(*   warns  the targets named by warnings.warn, in order                    *)
(*   calls  the callables invoked, with their arguments: how = "eager" for  *)
(*          a real call by a wrapper, "replay" for a metadata replay; out   *)
(*          is what the callee did                                          *)
(* An operation returns [h, rv, val, exc]: rv the proxy it returns, or the  *)
(* one the underlying tracer had built when it raised (0: none), val the    *)
(* plain value returned, exc the exception raised ("" : none): "Error" is   *)
(* any exception that is not an AssertionError or a NameError.  fwd is      *)
(* self.orig_forward of each tracer as the operation finds it.              *)
Heap(g, ps) ==
    [graph |-> g, proxies |-> ps, warns |-> <<>>, calls |-> <<>>, fwd |-> orig_forward]

Ret(h, rv, val, exc) == [h |-> h, rv |-> rv, val |-> val, exc |-> exc]

Call(fn, args, kwargs, how, out) ==
    [fn |-> fn, args |-> args, kwargs |-> kwargs, how |-> how, out |-> out]

\* What the callee of a replay or of an eager call does is not this module's
\* code: it returns a value, fails an assertion of its own, or raises.
Outcome(status, val) == [status |-> status, val |-> val]

RECURSIVE create_proxy(_, _, _, _, _, _, _)
RECURSIVE EnsureNodes(_, _, _)

\* MetaAttribute.node for each proxy of `need`: the getattr node is created on
\* first access and cached in _node
EnsureNodes(h, need, orc) ==
    IF need = <<>> THEN Ret(h, 0, NoneV, "")
    ELSE LET p == Head(need)
             pr == h.proxies[p]
         IN  IF pr.cls = "MetaAttribute" /\ pr.node = 0
             THEN LET r == create_proxy(h, pr.tracer, "call_function", Builtin("getattr"),
                                        <<ProxyV(pr.root), StrV(pr.attr)>>, <<>>,
                                        [res |-> orc.ares, ares |-> orc.ares])
                  IN  IF r.exc # "" THEN Ret(r.h, 0, NoneV, r.exc)
                      ELSE EnsureNodes(
                              [r.h EXCEPT !.proxies[p].node = r.h.proxies[r.rv].node],
                              Tail(need), orc)
             ELSE EnsureNodes(h, Tail(need), orc)

\* torch.fx.Tracer.create_proxy: create_arg on args and kwargs (which reads
\* .node of every proxy), one new node, one new proxy from self.proxy(node)
base_create_proxy(h, t, kind, target, args, kwargs, orc) ==
    LET need == ProxiesIn(ListV(args)) \o ProxiesIn(ListV(Values(kwargs)))
        r1 == EnsureNodes(h, need, orc)
    IN  IF r1.exc # "" THEN r1
        ELSE LET ps == r1.h.proxies
                 node == [tracer |-> t, op |-> kind, target |-> target,
                          args |-> [i \in DOMAIN args |-> ToNodeArg(ps, args[i])],
                          kwargs |-> [i \in DOMAIN kwargs |->
                                        <<kwargs[i][1], ToNodeArg(ps, kwargs[i][2])>>]]
                 g2 == Append(r1.h.graph, node)
                 pr == IF t = ForeignTracer
                       THEN [ForeignProxy EXCEPT !.node = Len(g2)]
                       ELSE MetaProxy(t, Len(g2))
             IN  Ret([r1.h EXCEPT !.graph = g2, !.proxies = Append(ps, pr)],
                     Len(ps) + 1, NoneV, "")

\* the metadata replay of lines 97-106, given the extracted metadata
Replay(b, t, kind, target, am, km, orc) ==
    LET warn == [b EXCEPT !.h.warns = Append(@, target)]
        done(fn) ==
            LET c == [b EXCEPT !.h.calls = Append(@, Call(fn, am, km, "replay", orc.res))]
            IN  IF orc.res.status = "ok"
                THEN [c EXCEPT !.h.proxies = install_tensor_meta(@, b.rv, orc.res.val)]
                ELSE IF orc.res.status = "assert"
                THEN [c EXCEPT !.h.warns = Append(@, target)]
                ELSE [c EXCEPT !.exc = "Error"]
    IN  IF kind = "call_function" THEN done(target)
        ELSE IF kind = "call_method" THEN
            IF am = <<>> THEN [b EXCEPT !.exc = "Error"] ELSE done(target)
        ELSE IF kind = "call_module" THEN
            IF b.h.fwd[t] = NoFn THEN warn ELSE done(b.h.fwd[t])
        ELSE IF kind # "placeholder" THEN warn
        ELSE b

\* the test with kind looked up in meta_args instead of target
IsMetaInput_kind(t, kind, target) == kind = "placeholder" /\ HasKey(meta_args[t], kind)

\* kind == 'placeholder' and target in self.meta_args
IsMetaInput(t, kind, target) == kind = "placeholder" /\ HasKey(meta_args[t], target.name)

\* a test that forgets the target
force_meta_device_any(t, target, kwargs) ==
    IF HasKey(kwargs, "device") THEN SetKey(kwargs, "device", StrV("meta")) ELSE kwargs

\* lines 84-91: kwargs['device'] = 'meta' for an original of a patched name
force_meta_device(t, target, kwargs) ==
    IF target \in orig_fns[t] /\ HasKey(kwargs, "device")
    THEN SetKey(kwargs, "device", StrV("meta"))
    ELSE kwargs

\* MetaTracer.create_proxy (a plain tracer runs the base method only)
create_proxy(h, t, kind, target, args, kwargs, orc) ==
    LET b == base_create_proxy(h, t, kind, target, args, kwargs, orc)
    IN  IF b.exc # "" \/ t = ForeignTracer THEN b
        ELSE IF IsMetaInput(t, kind, target)
        THEN [b EXCEPT !.h.proxies =
                 install_tensor_meta(@, b.rv, Get(meta_args[t], target.name))]
        ELSE LET kw2 == force_meta_device(t, target, kwargs)
                 am == proxys_to_metas(b.h.proxies, ListV(args))
                 km == proxys_to_metas(b.h.proxies, ListV(Values(kw2)))
             IN  IF ~am.ok \/ ~km.ok
                 THEN [b EXCEPT !.h.warns = Append(@, target)]
                 ELSE Replay(b, t, kind, target, am.v.items,
                             [i \in DOMAIN kw2 |-> <<kw2[i][1], km.v.items[i]>>], orc)

----------------------------------------------------------------------------
(* Modules and the root's namespace *)
Mods == 1 .. 4

ModCls == <<"ReLU", "relu", "Linear", "Stats">>   \* type(mod).__name__

ModParams == <<0, 0, 1, 0>>      \* len(list(mod.parameters()))

ModBuffers == <<0, 0, 0, 1>>     \* len(list(mod.buffers()))

\* str.lower() on the class names above
Lower(c) == IF c = "ReLU" THEN "relu"
            ELSE IF c = "Linear" THEN "linear"
            ELSE IF c = "Stats" THEN "stats"
            ELSE c

\* f"{mod_name}_{idx}"
Fmt(mod_name, idx) == mod_name \o "_" \o ToString(idx)

\* hasattr(self.root, path)
HasAttr(r, path) == path \in r.attrs

\* Module.add_module(path, mod)
add_module(r, path, m) ==
    [attrs |-> r.attrs \cup {path},
     children |-> {c \in r.children : c[1] # path} \cup {<<path, m>>}]

RECURSIVE InsertLoop_skip(_, _, _, _)
\* a loop that advances idx by two
InsertLoop_skip(r, mod_name, st, iters) ==
    IF HasAttr(r, st.path)
    THEN InsertLoop_skip(r, mod_name,
                         [path |-> Fmt(mod_name, st.idx), idx |-> st.idx + 2], iters + 1)
    ELSE [path |-> st.path, idx |-> st.idx, iters |-> iters]

RECURSIVE InsertLoop(_, _, _, _)
\* the while loop of _insert_module_as_submodule; iters counts its iterations
InsertLoop(r, mod_name, st, iters) ==
    IF HasAttr(r, st.path)
    THEN InsertLoop(r, mod_name, [path |-> Fmt(mod_name, st.idx), idx |-> st.idx + 1], iters + 1)
    ELSE [path |-> st.path, idx |-> st.idx, iters |-> iters]

\* MetaTracer._insert_module_as_submodule: [root, path, iters]
insert_module_as_submodule(r, m) ==
    LET mod_name == Lower(ModCls[m])
        fin == InsertLoop(r, mod_name, [path |-> Fmt(mod_name, 0), idx |-> 0], 0)
    IN  [root |-> add_module(r, fin.path, m), path |-> fin.path, iters |-> fin.iters]

\* mod.forward, the forward implementation of a module
Forward(m) == [fn |-> "forward", name |-> ModCls[m], by |-> m, lvl |-> 0]

\* Tracer.is_leaf_module: the modules of torch.nn are leaves, Stats is a
\* module of the traced program
ModLeaf == <<TRUE, TRUE, TRUE, FALSE>>

\* torch.fx.Tracer.path_of_module: the name under which mod is registered
Resolves(r, m) == \E c \in r.children : c[2] = m

Resolved(r, m) == (CHOOSE c \in r.children : c[2] = m)[1]

\* the condition without the test on the buffers
Stateless_nobuffers(m, al) == al /\ ModParams[m] = 0

\* the condition of line 138
Stateless(m, al) == al /\ ModParams[m] = 0 /\ ModBuffers[m] = 0

\* MetaTracer.path_of_module: [root, path, exc, iters, inserted]
path_of_module(r, m, al) ==
    IF Resolves(r, m)
    THEN [root |-> r, path |-> Resolved(r, m), exc |-> "", iters |-> 0, inserted |-> FALSE]
    ELSE IF Stateless(m, al)
    THEN LET i == insert_module_as_submodule(r, m)
         IN  [root |-> i.root, path |-> i.path, exc |-> "", iters |-> i.iters, inserted |-> TRUE]
    ELSE [root |-> r, path |-> "", exc |-> "NameError", iters |-> 0, inserted |-> FALSE]

\* an assignment that keeps a forward recorded earlier
record_forward_once(fwd, t, forward) ==
    IF fwd[t] = NoFn THEN [fwd EXCEPT ![t] = forward] ELSE fwd

\* self.orig_forward = forward
record_forward(fwd, t, forward) == [fwd EXCEPT ![t] = forward]

\* torch.fx.Tracer.call_module, the underlying tracer's: the path of m is
\* resolved, then the call_module node of a leaf is created; the forward of a
\* module that is no leaf is run instead (entered = TRUE), and what it does
\* are the operations that follow
base_call_module(h, r, t, m, args, kwargs, orc) ==
    LET pm == path_of_module(r, m, TRUE)
    IN  IF pm.exc # ""
        THEN [res |-> Ret(h, 0, NoneV, pm.exc), root |-> pm.root, path |-> "",
              entered |-> FALSE]
        ELSE IF ~ModLeaf[m]
        THEN [res |-> Ret(h, 0, NoneV, ""), root |-> pm.root, path |-> pm.path,
              entered |-> TRUE]
        ELSE [res |-> create_proxy(h, t, "call_module", NameT(pm.path), args, kwargs, orc),
              root |-> pm.root, path |-> pm.path, entered |-> FALSE]

\* MetaTracer.call_module(m, forward, args, kwargs) with forward = m.forward
call_module(h, r, t, m, args, kwargs, orc) ==
    base_call_module([h EXCEPT !.fwd = record_forward(@, t, Forward(m))],
                     r, t, m, args, kwargs, orc)

----------------------------------------------------------------------------
(* Calls of torch.<name>: an original, or a wrapper of gen_constructor_wrapper *)
\* the nonlocal proxy after the two map_aggregate calls of the wrapper (0: None)
FoundProxy(args, kwargs) ==
    check_has_proxy(ListV(Values(kwargs)), check_has_proxy(ListV(args), 0))

\* a wrapper that forwards the positional arguments only
EagerCall_nokwargs(h, f, args, kwargs, orc) ==
    LET c == [h EXCEPT !.calls = Append(@, Call(f, args, <<>>, "eager", orc.res))]
    IN  IF orc.res.status = "ok" THEN Ret(c, 0, orc.res.val, "")
        ELSE IF orc.res.status = "assert" THEN Ret(c, 0, NoneV, "AssertionError")
        ELSE Ret(c, 0, NoneV, "Error")

\* f(*args, **kwargs) for an original f: a real call
EagerCall(h, f, args, kwargs, orc) ==
    LET c == [h EXCEPT !.calls = Append(@, Call(f, args, kwargs, "eager", orc.res))]
    IN  IF orc.res.status = "ok" THEN Ret(c, 0, orc.res.val, "")
        ELSE IF orc.res.status = "assert" THEN Ret(c, 0, NoneV, "AssertionError")
        ELSE Ret(c, 0, NoneV, "Error")

RECURSIVE CallFn(_, _, _, _, _)
\* f(*args, **kwargs) for a wrapper f made by gen_constructor_wrapper, or an original
CallFn(h, f, args, kwargs, orc) ==
    IF f.fn = "wrapper"
    THEN LET target == patched[f.by][f.name][2]
             proxy == FoundProxy(args, kwargs)
         IN  IF proxy # 0
             THEN create_proxy(h, h.proxies[proxy].tracer, "call_function", target,
                               args, kwargs, orc)
             ELSE CallFn(h, target, args, kwargs, orc)
    ELSE EagerCall(h, f, args, kwargs, orc)

----------------------------------------------------------------------------
(* MetaProxy.size / MetaProxy.dim *)
\* Python truthiness of the dim argument (None and 0 are falsy)
Truthy(v) == v.k = "int" /\ v.n # 0

\* Tensor.size(*a) on the installed metadata
MetaSize(h, meta, a) ==
    IF meta.k # "meta" THEN Ret(h, 0, NoneV, "Error")
    ELSE IF a = <<>> THEN Ret(h, 0, SizeV(meta.dims), "")
    ELSE IF a[1].k = "int" /\ a[1].n + 1 \in DOMAIN meta.dims
    THEN Ret(h, 0, IntV(meta.dims[a[1].n + 1]), "")
    ELSE Ret(h, 0, NoneV, "Error")

\* Tensor.dim() on the installed metadata
MetaDim(h, meta) ==
    IF meta.k # "meta" THEN Ret(h, 0, NoneV, "Error")
    ELSE Ret(h, 0, IntV(Len(meta.dims)), "")

\* the argument list size() passes on: [dim] if dim else []
SizeArgs(dim) == IF Truthy(dim) THEN <<dim>> ELSE <<>>

size(h, p, dim, orc) ==
    LET pr == h.proxies[p]
    IN  IF MetaPresent(pr)
        THEN MetaSize(h, pr.meta, SizeArgs(dim))
        ELSE create_proxy(h, pr.tracer, "call_method", NameT("size"),
                          <<ProxyV(p)>> \o SizeArgs(dim), <<>>, orc)

dim(h, p, orc) ==
    LET pr == h.proxies[p]
    IN  IF MetaPresent(pr)
        THEN MetaDim(h, pr.meta)
        ELSE create_proxy(h, pr.tracer, "call_method", NameT("dim"), <<ProxyV(p)>>, <<>>, orc)

\* MetaAttribute.__call__
attr_call(h, a, args, kwargs, orc) ==
    LET pr == h.proxies[a]
    IN  create_proxy(h, pr.tracer, "call_method", NameT(pr.attr),
                     <<ProxyV(pr.root)>> \o args, kwargs, orc)

----------------------------------------------------------------------------
(* Inputs *)
M23 == MetaV(<<2, 3>>)

\* the dictionaries passed as meta_args, and one value that is not a dict
MetaArgsChoices ==
    { [isdict |-> TRUE, d |-> <<>>],
      [isdict |-> TRUE, d |-> << <<"x", M23>> >>],
      [isdict |-> TRUE, d |-> << <<"y", M23>> >>],
      [isdict |-> FALSE, d |-> <<>>] }

\* what a callee (a replayed operation, an original constructor) can do
Outcomes == { Outcome("ok", M23), Outcome("ok", NoneV),
              Outcome("assert", NoneV), Outcome("error", NoneV) }

\* the names suffixed 0..MaxSuffix-1 that the root may already carry
SuffixNames == { Fmt("relu", k) : k \in 0 .. MaxSuffix - 1 }

\* the roots handed to trace(): "fc" is a declared Linear child
RootChoices ==
    { [attrs |-> S \cup {"fc"}, children |-> { <<"fc", 3>> }] : S \in SUBSET SuffixNames }

NoRoot == [attrs |-> {}, children |-> {}]

\* a root with its declared child only
BareRoot == [attrs |-> {"fc"}, children |-> { <<"fc", 3>> }]

Pids == DOMAIN proxies

\* proxies with the MetaProxy methods (MetaProxy and MetaAttribute objects)
MetaPids == { p \in Pids : proxies[p].cls # "Proxy" }

AttrPids == { p \in Pids : proxies[p].cls = "MetaAttribute" }

\* MetaAttribute objects among the arguments whose getattr node does not exist yet
Unpromoted(args, kwargs) ==
    LET need == ProxiesIn(ListV(args)) \o ProxiesIn(ListV(Values(kwargs)))
    IN  \E i \in DOMAIN need :
           proxies[need[i]].cls = "MetaAttribute" /\ proxies[need[i]].node = 0

\* the callee outcomes an operation on these arguments can meet: one for the
\* operation itself, one for the getattr replays of attributes it promotes
OraclesFor(args, kwargs) ==
    { [res |-> a, ares |-> b] :
        a \in Outcomes,
        b \in (IF Unpromoted(args, kwargs) THEN Outcomes ELSE {Outcome("ok", NoneV)}) }

\* a replayed operation with several outputs returns a tuple of meta tensors
Composite == Outcome("ok", ListV(<<M23, M23>>))

\* the outcomes of a request of the underlying trace: those above, and a
\* tuple for the request's own replay
HookOracles(args, kwargs) ==
    OraclesFor(args, kwargs) \cup { [res |-> Composite, ares |-> Outcome("ok", NoneV)] }

NoOracle == [res |-> Outcome("ok", NoneV), ares |-> Outcome("ok", NoneV)]

Req(kind, target, args, kwargs) ==
    [kind |-> kind, target |-> target, args |-> args, kwargs |-> kwargs]

Nested(p) == ListV(<<IntV(1), ListV(<<ProxyV(p)>>)>>)

\* the forward parameters of the root, for which super().trace creates the
\* placeholders before it runs forward
ForwardParams == <<"x">>

\* the node-creation requests the underlying trace makes while running forward
Requests ==
    { Req("call_method", NameT("view"), <<>>, <<>>),
      Req("get_attr", NameT("w"), <<>>, <<>>),
      Req("call_function", Builtin("add"), <<IntV(1)>>, << <<"device", StrV("cpu")>> >>) }
    \cup { Req("call_function", Builtin("add"), <<ProxyV(p)>>, <<>>) : p \in Pids }
    \cup { Req("call_function", Builtin("add"), <<Nested(p)>>, <<>>) : p \in Pids }
    \cup { Req("call_function", Builtin("add"), <<ProxyV(p), ProxyV(1)>>, <<>>) : p \in Pids }
    \cup { Req("call_function", Builtin("add"), <<IntV(1)>>, << <<"other", ProxyV(p)>> >>) :
             p \in Pids }
    \cup { Req("call_method", NameT("view"), <<ProxyV(p), IntV(1)>>, <<>>) : p \in Pids }
    \cup { Req("call_module", NameT("fc"), <<ProxyV(p)>>, <<>>) : p \in Pids }

\* the calls of a patched constructor the traced code makes
TorchCalls ==
    { Req("", NoFn, <<IntV(1)>>, <<>>),
      Req("", NoFn, <<IntV(1)>>, << <<"device", StrV("cpu")>> >>),
      Req("", NoFn, <<Nested(1)>>, <<>>) }
    \cup { Req("", NoFn, <<ProxyV(p)>>, <<>>) : p \in Pids }
    \cup { Req("", NoFn, <<IntV(1), Nested(p)>>, << <<"device", StrV("cpu")>> >>) : p \in Pids }
    \cup { Req("", NoFn, <<IntV(1)>>, << <<"other", ProxyV(p)>> >>) : p \in Pids }
    \cup { Req("", NoFn, <<ProxyV(1)>>, << <<"other", ProxyV(p)>> >>) : p \in Pids }

AttrNames == {"shape", "foo"}

DimChoices == {NoneV} \cup { IntV(d) : d \in 0 .. MaxDim - 1 }

----------------------------------------------------------------------------
(* The record of the last operation: its inputs and what it returned *)
NoEv ==
    [op |-> "init", t |-> 0, kind |-> "", target |-> NoFn, args |-> <<>>, kwargs |-> <<>>,
     p |-> 0, d |-> NoneV, m |-> 0, al |-> FALSE,
     rv |-> 0, val |-> NoneV, exc |-> "", path |-> "", iters |-> 0,
     warns |-> <<>>, calls |-> <<>>, glen |-> 0]

Ev(op, t) == [NoEv EXCEPT !.op = op, !.t = t, !.glen = Len(graph)]

\* the heap after operation r becomes the state, within the bounds
Commit(r, e) ==
    /\ Len(r.h.graph) <= MaxNodes
    /\ Len(r.h.proxies) <= MaxProxies
    /\ graph' = r.h.graph
    /\ proxies' = r.h.proxies
    /\ ev' = [e EXCEPT !.rv = r.rv, !.val = r.val, !.exc = r.exc,
                       !.warns = r.h.warns, !.calls = r.h.calls]

Tracing(t) == pc[t] = "tracing"

----------------------------------------------------------------------------
Init ==
    /\ torchNS = OrigNS
    /\ pc = [t \in Tracers |-> "idle"]
    /\ meta_args = [t \in Tracers |-> <<>>]
    /\ patched = [t \in Tracers |-> [n \in PatchNames |-> <<NoFn, NoFn>>]]
    /\ orig_fns = [t \in Tracers |-> {}]
    /\ orig_forward = [t \in Tracers |-> NoFn]
    /\ root = NoRoot
    /\ graph = <<>>
    /\ proxies = <<ForeignProxy>>
    /\ ev = NoEv

\* self.patched_torch_methods as trace() builds it
PatchedMethods(t) == [n \in PatchNames |-> gen_constructor_wrapper(t, torchNS[n])]

\* MetaTracer.trace up to the call of super().trace: the assertion, the
\* patches; super().trace starts a new graph on the root
TraceEnter(t, ma, r) ==
    /\ pc[t] = "idle"
    /\ IF ~ma.isdict
       THEN /\ ev' = [Ev("trace", t) EXCEPT !.exc = "AssertionError"]
            /\ UNCHANGED <<torchNS, pc, meta_args, patched, orig_fns, root, graph, proxies>>
       ELSE LET pm == PatchedMethods(t)
            IN  /\ meta_args' = [meta_args EXCEPT ![t] = ma.d]
                /\ patched' = [patched EXCEPT ![t] = pm]
                /\ orig_fns' = [orig_fns EXCEPT ![t] = { pm[n][2] : n \in PatchNames }]
                /\ torchNS' = [n \in PatchNames |-> pm[n][1]]
                /\ pc' = [pc EXCEPT ![t] = "tracing"]
                /\ root' = r
                /\ graph' = <<>>
                /\ proxies' = <<ForeignProxy>>
                /\ ev' = Ev("trace", t)
    /\ UNCHANGED orig_forward

\* a finally block that puts back the functions torch had before any trace
Restored_pristine(t) == OrigNS

\* a finally block that puts back the first element of each pair
Restored_wrapper(t) == [n \in PatchNames |-> patched[t][n][1]]

\* the functions the finally block of trace() puts back
Restored(t) == [n \in PatchNames |-> patched[t][n][2]]

\* super().trace returns the graph or raises; the finally block runs
TraceExit(t, exc) ==
    /\ Tracing(t)
    /\ torchNS' = Restored(t)
    /\ pc' = [pc EXCEPT ![t] = "idle"]
    /\ ev' = [Ev("trace_end", t) EXCEPT !.exc = exc]
    /\ UNCHANGED <<meta_args, patched, orig_fns, orig_forward, root, graph, proxies>>

\* trace() called while no other trace is running
TraceBegin(t) ==
    /\ \A u \in Tracers : pc[u] = "idle"
    /\ \E ma \in MetaArgsChoices : TraceEnter(t, ma, BareRoot)

\* trace() called by a tracer that is not tracing, whatever the others do
TraceBeginAny(t) ==
    /\ \A n \in PatchNames : torchNS[n].lvl < MaxDepth
    /\ \E ma \in MetaArgsChoices : TraceEnter(t, ma, BareRoot)

TraceEnd(t) == \E exc \in {"", "Error"} : TraceExit(t, exc)

\* super().trace creates the placeholder of the next forward parameter
Placeholder(t) ==
    /\ Tracing(t)
    /\ Len(graph) < Len(ForwardParams)
    /\ \A i \in DOMAIN graph : graph[i].op = "placeholder"
    /\ LET name == ForwardParams[Len(graph) + 1]
       IN  Commit(create_proxy(Heap(graph, proxies), t, "placeholder", NameT(name),
                               <<>>, <<>>, NoOracle),
                  [Ev("create_proxy", t) EXCEPT !.kind = "placeholder",
                                                !.target = NameT(name)])
    /\ UNCHANGED <<torchNS, pc, meta_args, patched, orig_fns, orig_forward, root>>

\* the underlying trace asks for a node while running forward
CreateProxy(t) ==
    /\ Tracing(t)
    /\ Len(graph) < MaxReq
    /\ \E rq \in Requests :
       \E orc \in HookOracles(rq.args, rq.kwargs) :
          Commit(create_proxy(Heap(graph, proxies), t, rq.kind, rq.target,
                              rq.args, rq.kwargs, orc),
                 [Ev("create_proxy", t) EXCEPT !.kind = rq.kind, !.target = rq.target,
                                               !.args = rq.args, !.kwargs = rq.kwargs])
    /\ UNCHANGED <<torchNS, pc, meta_args, patched, orig_fns, orig_forward, root>>

\* the traced code calls torch.zeros(*args, **kwargs)
CallTorch(t) ==
    /\ Tracing(t)
    /\ Len(graph) < MaxReq
    /\ \E c \in TorchCalls :
       \E orc \in OraclesFor(c.args, c.kwargs) :
          Commit(CallFn(Heap(graph, proxies), torchNS["zeros"], c.args, c.kwargs, orc),
                 [Ev("call_torch", t) EXCEPT !.target = torchNS["zeros"], !.args = c.args,
                                             !.kwargs = c.kwargs])
    /\ UNCHANGED <<torchNS, pc, meta_args, patched, orig_fns, orig_forward, root>>

\* proxy.size(dim) / proxy.size()
Size(t) ==
    /\ Tracing(t)
    /\ \E p \in MetaPids, d \in DimChoices :
       \E orc \in OraclesFor(<<ProxyV(p)>>, <<>>) :
          Commit(size(Heap(graph, proxies), p, d, orc),
                 [Ev("size", t) EXCEPT !.p = p, !.d = d])
    /\ UNCHANGED <<torchNS, pc, meta_args, patched, orig_fns, orig_forward, root>>

\* proxy.dim()
Dim(t) ==
    /\ Tracing(t)
    /\ \E p \in MetaPids :
       \E orc \in OraclesFor(<<ProxyV(p)>>, <<>>) :
          Commit(dim(Heap(graph, proxies), p, orc),
                 [Ev("dim", t) EXCEPT !.p = p])
    /\ UNCHANGED <<torchNS, pc, meta_args, patched, orig_fns, orig_forward, root>>

\* MetaProxy.__getattr__(k) for k other than '_tensor_meta': a MetaAttribute
getattr_(h, p, k) ==
    Ret([h EXCEPT !.proxies = Append(@, MetaAttribute(p, h.proxies[p].tracer, k))],
        Len(h.proxies) + 1, NoneV, "")

\* the traced code reads proxy.<k>
GetAttr(t) ==
    /\ Tracing(t)
    /\ \E p \in MetaPids, k \in AttrNames :
          Commit(getattr_(Heap(graph, proxies), p, k),
                 [Ev("getattr", t) EXCEPT !.p = p, !.target = NameT(k)])
    /\ UNCHANGED <<torchNS, pc, meta_args, patched, orig_fns, orig_forward, root>>

\* the traced code calls attribute(*args)
AttrCall(t) ==
    /\ Tracing(t)
    /\ \E a \in AttrPids, args \in {<<>>, <<IntV(1)>>} :
       \E orc \in OraclesFor(<<ProxyV(proxies[a].root)>>, <<>>) :
          Commit(attr_call(Heap(graph, proxies), a, args, <<>>, orc),
                 [Ev("attr_call", t) EXCEPT !.p = a, !.args = args])
    /\ UNCHANGED <<torchNS, pc, meta_args, patched, orig_fns, orig_forward, root>>

\* the traced code uses an attribute as a value: an argument of an operation
UseAttr(t) ==
    /\ Tracing(t)
    /\ \E a \in AttrPids :
       \E orc \in OraclesFor(<<ProxyV(a)>>, <<>>) :
          Commit(create_proxy(Heap(graph, proxies), t, "call_function", Builtin("add"),
                              <<ProxyV(a), IntV(1)>>, <<>>, orc),
                 [Ev("create_proxy", t) EXCEPT !.kind = "call_function",
                                               !.target = Builtin("add"), !.p = a,
                                               !.args = <<ProxyV(a), IntV(1)>>])
    /\ UNCHANGED <<torchNS, pc, meta_args, patched, orig_fns, orig_forward, root>>

\* the traced code passes an attribute to torch.zeros
CallTorchAttr(t) ==
    /\ Tracing(t)
    /\ \E a \in AttrPids :
       \E orc \in OraclesFor(<<ProxyV(a)>>, <<>>) :
          Commit(CallFn(Heap(graph, proxies), torchNS["zeros"], <<ProxyV(a)>>, <<>>, orc),
                 [Ev("call_torch", t) EXCEPT !.target = torchNS["zeros"], !.p = a,
                                             !.args = <<ProxyV(a)>>])
    /\ UNCHANGED <<torchNS, pc, meta_args, patched, orig_fns, orig_forward, root>>

\* tracer.path_of_module(mod), with allow_insert_stateless_mods set to al
PathOfModule(t) ==
    /\ Tracing(t)
    /\ \E m \in Mods, al \in BOOLEAN :
          LET r == path_of_module(root, m, al)
          IN  /\ root' = r.root
              /\ ev' = [Ev("path_of_module", t) EXCEPT !.m = m, !.al = al, !.path = r.path,
                                                       !.exc = r.exc, !.iters = r.iters]
    /\ UNCHANGED <<torchNS, pc, meta_args, patched, orig_fns, orig_forward, graph, proxies>>

\* the traced code calls a submodule on a proxy
CallModule(t) ==
    /\ Tracing(t)
    /\ \E m \in Mods, p \in MetaPids :
       \E orc \in OraclesFor(<<ProxyV(p)>>, <<>>) :
          LET r == call_module(Heap(graph, proxies), root, t, m, <<ProxyV(p)>>, <<>>, orc)
          IN  /\ Commit(r.res, [Ev("call_module", t) EXCEPT
                                   !.m = m, !.kind = "call_module", !.path = r.path,
                                   !.target = NameT(r.path), !.args = <<ProxyV(p)>>])
              /\ orig_forward' = r.res.h.fwd
              /\ root' = r.root
    /\ UNCHANGED <<torchNS, pc, meta_args, patched, orig_fns>>

\* the traced code calls a function that is not patched, torch.add, on a
\* proxy, with or without a device keyword
CallOther(t) ==
    /\ Tracing(t)
    /\ Len(graph) < MaxReq
    /\ \E p \in MetaPids, kwargs \in { <<>>, << <<"device", StrV("cpu")>> >> } :
       \E orc \in OraclesFor(<<ProxyV(p)>>, kwargs) :
          Commit(create_proxy(Heap(graph, proxies), t, "call_function", Builtin("add"),
                              <<ProxyV(p)>>, kwargs, orc),
                 [Ev("create_proxy", t) EXCEPT !.kind = "call_function",
                                               !.target = Builtin("add"),
                                               !.args = <<ProxyV(p)>>, !.kwargs = kwargs])
    /\ UNCHANGED <<torchNS, pc, meta_args, patched, orig_fns, orig_forward, root>>

\* the values handed to proxys_to_metas: constants, a container, proxies
ExtractInputs ==
    { IntV(1), StrV("cpu"), NoneV, M23, ListV(<<ProxyV(1)>>) } \cup { ProxyV(p) : p \in Pids }

\* proxys_to_metas(v): the value it returns, or the AssertionError it raises
ExtractMetadata(t) ==
    /\ Tracing(t)
    /\ \E v \in ExtractInputs :
          LET r == extract_metadata(proxies, v)
          IN  ev' = [Ev("proxys_to_metas", t) EXCEPT
                        !.args = <<v>>,
                        !.val = r.v,
                        !.exc = IF r.ok THEN "" ELSE "AssertionError"]
    /\ UNCHANGED <<torchNS, pc, meta_args, patched, orig_fns, orig_forward, root,
                   graph, proxies>>

----------------------------------------------------------------------------
(* Specifications *)
\* sequences of trace() calls that do not overlap, with the constructor
\* calls of the traced code
Next ==
    \E t \in Tracers :
       \/ TraceBegin(t)
       \/ TraceEnd(t)
       \/ Placeholder(t)
       \/ CallTorch(t)

Spec == Init /\ [][Next]_vars

\* trace() calls of two tracers that may overlap
NextOverlap == \E t \in Tracers : TraceBeginAny(t) \/ TraceEnd(t)

SpecOverlap == Init /\ [][NextOverlap]_vars

\* the states in which tracer 1 has entered super().trace on one of roots
InitTracingOn(roots) ==
    /\ torchNS = [n \in PatchNames |-> gen_constructor_wrapper(1, OrigFn(n))[1]]
    /\ pc = [t \in Tracers |-> IF t = 1 THEN "tracing" ELSE "idle"]
    /\ \E ma \in { c \in MetaArgsChoices : c.isdict } :
          meta_args = [t \in Tracers |-> IF t = 1 THEN ma.d ELSE <<>>]
    /\ patched = [t \in Tracers |->
                    [n \in PatchNames |->
                        IF t = 1 THEN gen_constructor_wrapper(1, OrigFn(n))
                        ELSE <<NoFn, NoFn>>]]
    /\ orig_fns = [t \in Tracers |-> IF t = 1 THEN { OrigFn(n) : n \in PatchNames } ELSE {}]
    /\ orig_forward = [t \in Tracers |-> NoFn]
    /\ root \in roots
    /\ graph = <<>>
    /\ proxies = <<ForeignProxy>>
    /\ ev = [NoEv EXCEPT !.op = "trace", !.t = 1]

InitTracing == InitTracingOn({BareRoot})

InitPath == InitTracingOn(RootChoices)

\* one trace: the node-creation hook
NextHook == \E t \in Tracers : Placeholder(t) \/ CreateProxy(t) \/ TraceEnd(t)

SpecHook == InitTracing /\ [][NextHook]_vars

\* one trace: the constructor wrappers
NextWrap == \E t \in Tracers : Placeholder(t) \/ CallTorch(t) \/ TraceEnd(t)

SpecWrap == InitTracing /\ [][NextWrap]_vars

\* one trace: attributes of proxies
NextAttr ==
    \E t \in Tracers :
       \/ Placeholder(t)
       \/ GetAttr(t)
       \/ AttrCall(t)
       \/ UseAttr(t)
       \/ CallTorchAttr(t)
       \/ TraceEnd(t)

SpecAttr == InitTracing /\ [][NextAttr]_vars

\* one trace: size() and dim()
NextSize ==
    \E t \in Tracers : Placeholder(t) \/ Size(t) \/ Dim(t) \/ TraceEnd(t)

SpecSize == InitTracing /\ [][NextSize]_vars

\* one trace: module paths
NextPath == \E t \in Tracers : Placeholder(t) \/ PathOfModule(t) \/ TraceEnd(t)

SpecPath == InitPath /\ [][NextPath]_vars

\* one trace: constructor calls and calls of a function that is not patched
NextDevice == \E t \in Tracers : Placeholder(t) \/ CallOther(t) \/ CallTorch(t) \/ TraceEnd(t)

SpecDevice == InitTracing /\ [][NextDevice]_vars

\* a root with a declared Linear child and a declared child that is no leaf
ModRoot == [attrs |-> {"fc", "stats"}, children |-> { <<"fc", 3>>, <<"stats", 4>> }]

InitMod == InitTracingOn({ModRoot})

\* one trace: submodule calls
NextMod == \E t \in Tracers : Placeholder(t) \/ CallModule(t) \/ TraceEnd(t)

SpecMod == InitMod /\ [][NextMod]_vars

\* one trace: proxys_to_metas on constants and on proxies with and without
\* metadata
NextMeta ==
    \E t \in Tracers :
       \/ Placeholder(t)
       \/ Size(t)
       \/ Dim(t)
       \/ ExtractMetadata(t)
       \/ TraceEnd(t)

SpecMeta == InitTracing /\ [][NextMeta]_vars

----------------------------------------------------------------------------
(* Properties *)
Idle == \A t \in Tracers : pc[t] = "idle"

\* the proxies occurring in the arguments of the last operation, at any depth
EvProxies == ProxiesIn(ListV(ev.args)) \o ProxiesIn(ListV(Values(ev.kwargs)))

LastNode == graph[Len(graph)]

\* C1: whenever no trace call is running (before the first, between two, and
\* after one that returned, raised, or was rejected because meta_args is not a
\* dict), every patched constructor name of torch refers to its original.
C1_Restored == Idle => torchNS = OrigNS

\* a trace that created a node has raised, and the names are the originals again
C1_Witness ==
    /\ ev.op = "trace_end"
    /\ ev.exc = "Error"
    /\ Len(graph) > 0
    /\ Idle
    /\ torchNS = OrigNS

\* C2: whenever the underlying tracer has built the proxy rv of a request,
\* the hook returns it: no exception leaves MetaTracer.create_proxy.
C2_HookNeverRaises == (ev.op = "create_proxy" /\ ev.rv # 0) => ev.exc = ""

\* C3: a placeholder whose name is a key of meta_args carries exactly the
\* object of the mapping; nothing was replayed and nothing was warned.
C3_PlaceholderMeta ==
    (ev.op = "create_proxy" /\ ev.kind = "placeholder"
        /\ HasKey(meta_args[ev.t], ev.target.name))
    => /\ ev.exc = ""
       /\ ev.rv \in DOMAIN proxies
       /\ proxies[ev.rv].hasMeta
       /\ proxies[ev.rv].meta = Get(meta_args[ev.t], ev.target.name)
       /\ ev.calls = <<>>
       /\ ev.warns = <<>>

C3_Witness ==
    /\ ev.op = "create_proxy"
    /\ ev.kind = "placeholder"
    /\ HasKey(meta_args[ev.t], ev.target.name)
    /\ proxies[ev.rv].meta = M23

\* the replay of the last request fails with one of the three assertion-kind
\* failures: an input proxy is no MetaProxy or has no metadata, or the kind
\* is none of the four
AssertionKindFailure ==
    /\ ev.op = "create_proxy"
    /\ ev.rv # 0
    /\ ~IsMetaInput(ev.t, ev.kind, ev.target)
    /\ \/ \E i \in DOMAIN EvProxies :
             proxies[EvProxies[i]].cls = "Proxy" \/ ~proxies[EvProxies[i]].hasMeta
       \/ ev.kind \notin {"call_function", "call_method", "call_module", "placeholder"}

\* C4: on such a failure the hook warns once, naming the target, returns the
\* proxy of the node the underlying tracer appended, and that proxy has no
\* metadata.
C4_WarnAndContinue ==
    AssertionKindFailure
    => /\ ev.exc = ""
       /\ Cardinality({ i \in DOMAIN ev.warns : ev.warns[i] = ev.target }) = 1
       /\ Len(graph) > ev.glen
       /\ LastNode.op = ev.kind
       /\ LastNode.target = ev.target
       /\ proxies[ev.rv].node = Len(graph)
       /\ ~proxies[ev.rv].hasMeta

\* an operation on a MetaProxy without metadata has warned
C4_Witness ==
    /\ AssertionKindFailure
    /\ ev.kind = "call_function"
    /\ \E i \in DOMAIN EvProxies :
          proxies[EvProxies[i]].cls = "MetaProxy" /\ ~proxies[EvProxies[i]].hasMeta
    /\ ev.warns = <<ev.target>>

\* C5: a wrapper called without any proxy among its arguments calls the
\* original once with the same arguments and returns what it returns (or
\* raises what it raises); no node, no proxy, no warning.
C5_NoProxyEager ==
    [][(ev'.op = "call_torch" /\ ev'.target.fn = "wrapper"
          /\ ProxiesIn(ListV(ev'.args)) \o ProxiesIn(ListV(Values(ev'.kwargs))) = <<>>)
       => /\ graph' = graph
          /\ proxies' = proxies
          /\ ev'.warns = <<>>
          /\ Len(ev'.calls) = 1
          /\ ev'.calls[1].fn = OrigFn(ev'.target.name)
          /\ ev'.calls[1].how = "eager"
          /\ ev'.calls[1].args = ev'.args
          /\ ev'.calls[1].kwargs = ev'.kwargs
          /\ ev'.calls[1].out.status = "ok" => (ev'.exc = "" /\ ev'.val = ev'.calls[1].out.val)
          /\ ev'.calls[1].out.status # "ok" => ev'.exc # ""]_vars

\* the wrapper of zeros was called with concrete arguments and a device, in a
\* graph that has a node, and returned the original's result
C5_Witness ==
    /\ ev.op = "call_torch"
    /\ ev.target.fn = "wrapper"
    /\ EvProxies = <<>>
    /\ HasKey(ev.kwargs, "device")
    /\ Len(graph) > 0
    /\ ev.val = M23

\* C6: a wrapper called with a proxy among its arguments makes no eager call
\* of the original and appends a call_function node whose target is the
\* original, in the graph of a tracer owning one of those proxies.
C6_ProxySymbolic ==
    (ev.op = "call_torch" /\ ev.target.fn = "wrapper" /\ EvProxies # <<>>)
    => /\ \A i \in DOMAIN ev.calls : ev.calls[i].how # "eager"
       /\ Len(graph) > ev.glen
       /\ LastNode.op = "call_function"
       /\ LastNode.target = OrigFn(ev.target.name)
       /\ LastNode.tracer \in { proxies[EvProxies[i]].tracer : i \in DOMAIN EvProxies }

\* the nodes appended by the last operation
NewNodes == { i \in DOMAIN graph : i > ev.glen }

IsGetattrNode(n, a) ==
    /\ n.op = "call_function"
    /\ n.target = Builtin("getattr")
    /\ n.args = <<NodeV(proxies[a.root].node), StrV(a.attr)>>
    /\ n.kwargs = <<>>

\* C7: calling an attribute appends exactly one call_method node, with the
\* attribute's name as target and (root,) + args as arguments, and no getattr
\* node for that attribute; reading an attribute appends nothing; the node of
\* an attribute, once it has one, is call_function(getattr, (root, attr)).
C7_AttrNodes ==
    /\ ev.op = "attr_call"
       => /\ Cardinality({ i \in NewNodes : graph[i].op = "call_method" }) = 1
          /\ LastNode.op = "call_method"
          /\ LastNode.target = NameT(proxies[ev.p].attr)
          /\ LastNode.args = <<NodeV(proxies[proxies[ev.p].root].node)>> \o ev.args
          /\ proxies[ev.p].node = 0
          /\ \A i \in NewNodes : ~IsGetattrNode(graph[i], proxies[ev.p])
    /\ ev.op = "getattr"
       => /\ Len(graph) = ev.glen
          /\ proxies[ev.rv].cls = "MetaAttribute"
          /\ proxies[ev.rv].node = 0
    /\ \A a \in AttrPids :
          proxies[a].node # 0 => IsGetattrNode(graph[proxies[a].node], proxies[a])

FirstUnused(r, base) ==
    CHOOSE k \in 0 .. Cardinality(r.attrs) :
        /\ Fmt(base, k) \notin r.attrs
        /\ \A j \in 0 .. k - 1 : Fmt(base, j) \in r.attrs

\* C9: an insertion ends after at most one iteration per attribute of the
\* root plus one, under the name <lowercased type name>_<k> with k the first
\* unused suffix; that name was no attribute of the root, and every child the
\* root had is still there.
C9_FirstUnusedSuffix ==
    [][(ev'.op = "path_of_module" /\ root' # root)
       => /\ ev'.path = Fmt(Lower(ModCls[ev'.m]), FirstUnused(root, Lower(ModCls[ev'.m])))
          /\ ev'.path \notin root.attrs
          /\ root.children \subseteq root'.children
          /\ root'.children = root.children \cup { <<ev'.path, ev'.m>> }
          /\ root'.attrs = root.attrs \cup { ev'.path }
          /\ ev'.iters <= Cardinality(root.attrs) + 1]_vars

\* a module was inserted under a suffix above 0 because lower ones were taken
C9_Witness ==
    /\ ev.op = "path_of_module"
    /\ ev.exc = ""
    /\ ev.iters >= 2
    /\ ev.path # Fmt(Lower(ModCls[ev.m]), 0)
    /\ <<ev.path, ev.m>> \in root.children

\* Tensor.size(d) / Tensor.size() as the claim expects it of the metadata
SizeOf(meta, d) ==
    IF d = NoneV THEN SizeV(meta.dims)
    ELSE IF d.n + 1 \in DOMAIN meta.dims THEN IntV(meta.dims[d.n + 1])
    ELSE NoneV

\* C10: on a proxy with metadata, size(d) is the metadata's size(d) for every
\* d, 0 included, size() its full size, dim() its dim(), and no node is made.
C10_SizeFromMeta ==
    /\ (ev.op = "size" /\ MetaPresent(proxies[ev.p]) /\ proxies[ev.p].meta.k = "meta")
       => /\ Len(graph) = ev.glen
          /\ ev.val = SizeOf(proxies[ev.p].meta, ev.d)
    /\ (ev.op = "dim" /\ MetaPresent(proxies[ev.p]) /\ proxies[ev.p].meta.k = "meta")
       => /\ Len(graph) = ev.glen
          /\ ev.val = IntV(Len(proxies[ev.p].meta.dims))

\* C11: proxys_to_metas changes nothing and has three cases: a value that is
\* no proxy comes back unchanged; a MetaProxy on which _tensor_meta exists
\* gives that metadata; a proxy of another class, or one without _tensor_meta,
\* gives an AssertionError and no value.
C11_ExtractTotal ==
    [][ev'.op = "proxys_to_metas"
       => LET v == ev'.args[1]
              pr == proxies[v.n]
          IN  /\ graph' = graph /\ proxies' = proxies /\ root' = root
              /\ torchNS' = torchNS /\ meta_args' = meta_args
              /\ ev'.warns = <<>> /\ ev'.calls = <<>>
              /\ v.k # "proxy" => (ev'.exc = "" /\ ev'.val = v)
              /\ (v.k = "proxy" /\ pr.cls # "Proxy" /\ pr.hasMeta)
                    => (ev'.exc = "" /\ ev'.val = pr.meta)
              /\ (v.k = "proxy" /\ (pr.cls = "Proxy" \/ ~pr.hasMeta))
                    => (ev'.exc = "AssertionError" /\ ev'.val = NoneV)]_vars

\* the metadata of a placeholder was extracted
C11_Witness ==
    /\ ev.op = "proxys_to_metas"
    /\ ev.args[1].k = "proxy"
    /\ proxies[ev.args[1].n].cls = "MetaProxy"
    /\ proxies[ev.args[1].n].hasMeta
    /\ ev.val = M23
    /\ ev.exc = ""

\* what the replay of the last request's own node returned or raised
ReplayOut == ev.calls[Len(ev.calls)].out

\* the last request's own node was replayed
Replayed ==
    /\ ev.op \in {"create_proxy", "call_module", "call_torch"}
    /\ ev.rv # 0
    /\ ev.calls # <<>>
    /\ ev.calls[Len(ev.calls)].how = "replay"

\* C12: when the replay of a node returns a tuple, the proxy of the node gets
\* no metadata and a warning naming the target is emitted.
C12_CompositeWarns ==
    (Replayed /\ ReplayOut.status = "ok" /\ ReplayOut.val.k = "list")
    => /\ ~proxies[ev.rv].hasMeta
       /\ \E i \in DOMAIN ev.warns : ev.warns[i] = ev.target

\* the call_function(getattr, (root, attr), {}) nodes of the graph that an
\* attribute with the root and name of a makes
GetattrNodes(a) == { i \in DOMAIN graph : IsGetattrNode(graph[i], proxies[a]) }

\* the MetaAttribute objects with the root and name of a (a itself included)
SameAttr(a) ==
    { b \in AttrPids : proxies[b].root = proxies[a].root /\ proxies[b].attr = proxies[a].attr }

\* C13: whatever number of times the node of a MetaAttribute is read, the
\* graph holds at most one getattr node per MetaAttribute object: the first
\* read creates and caches it, later reads add none.
C13_OneGetattrNode ==
    \A a \in AttrPids : Cardinality(GetattrNodes(a)) <= Cardinality(SameAttr(a))

\* the proxies that create_proxy returned for the getattr node of attribute a
\* and on which the metadata computed for that node was installed
GetattrMetas(a) ==
    { q \in Pids : /\ proxies[q].cls = "MetaProxy"
                   /\ proxies[a].node # 0
                   /\ proxies[q].node = proxies[a].node
                   /\ proxies[q].hasMeta }

\* C14: a promoted MetaAttribute carries the metadata computed for its
\* getattr node: proxys_to_metas succeeds on it, and an operation taking it
\* as an argument is replayed on that metadata and gets metadata of its own
\* when the replay returns.
C14_PromotedCarriesMeta ==
    /\ \A a \in AttrPids : \A q \in GetattrMetas(a) :
          /\ proxies[a].hasMeta
          /\ proxies[a].meta = proxies[q].meta
          /\ extract_metadata(proxies, ProxyV(a)).ok
    /\ (ev.op = "create_proxy" /\ ev.p \in AttrPids /\ ev.exc = ""
           /\ GetattrMetas(ev.p) # {})
       => /\ Replayed
          /\ ReplayOut.status = "ok" => proxies[ev.rv].hasMeta

\* C15: the replay of a call_module node runs the forward of the module the
\* node is for (the one registered under the node's target), whatever
\* modules were called or entered before.
C15_OwnForward ==
    (ev.op = "call_module" /\ ev.rv # 0)
    => /\ LastNode.op = "call_module"
       /\ <<LastNode.target.name, ev.m>> \in root.children
       /\ Replayed => ev.calls[Len(ev.calls)].fn = Forward(ev.m)

\* a second submodule was called after the node of another one was made, and
\* its replay ran with its own forward
C15_Witness ==
    /\ ev.op = "call_module"
    /\ Replayed
    /\ ReplayOut.status = "ok"
    /\ ev.calls[Len(ev.calls)].fn = Forward(ev.m)
    /\ \E i \in 1 .. Len(graph) - 1 :
          graph[i].op = "call_module" /\ graph[i].target # LastNode.target

\* the node the last request made
EvNode == graph[proxies[ev.rv].node]

\* C16: the replay of a node gets device = 'meta' when the node's target is
\* an original of a patched constructor and the call has a device keyword;
\* for any other target the device keyword reaches the replay as passed; no
\* device keyword is added to a call that has none.
C16_DeviceMeta ==
    Replayed
    => LET c == ev.calls[Len(ev.calls)]
           patchedTarget == EvNode.target \in orig_fns[EvNode.tracer]
       IN  /\ HasKey(c.kwargs, "device") <=> HasKey(ev.kwargs, "device")
           /\ Len(c.kwargs) = Len(ev.kwargs)
           /\ (patchedTarget /\ HasKey(ev.kwargs, "device"))
                 => Get(c.kwargs, "device") = StrV("meta")
           /\ (~patchedTarget /\ HasKey(ev.kwargs, "device"))
                 => Get(c.kwargs, "device") = Get(ev.kwargs, "device")
           /\ (HasKey(c.kwargs, "device") /\ Get(c.kwargs, "device") = StrV("meta"))
                 => (patchedTarget \/ Get(ev.kwargs, "device") = StrV("meta"))

\* torch.zeros was called with a proxy and device = 'cpu', and replayed with
\* device = 'meta'
C16_Witness ==
    /\ Replayed
    /\ ev.op = "call_torch"
    /\ EvNode.target = OrigFn("zeros")
    /\ HasKey(ev.kwargs, "device")
    /\ Get(ev.kwargs, "device") = StrV("cpu")
    /\ Get(ev.calls[Len(ev.calls)].kwargs, "device") = StrV("meta")
    /\ ReplayOut.status = "ok"

\* the last operation appended exactly one node, a call_method of target
\* with these arguments, and returned a new proxy for it
OneMethodNode(target, args) ==
    /\ Len(graph) = ev.glen + 1
    /\ LastNode.op = "call_method"
    /\ LastNode.target = NameT(target)
    /\ LastNode.args = args
    /\ LastNode.kwargs = <<>>
    /\ ev.exc = "" => /\ ev.rv = Len(proxies)
                       /\ proxies[ev.rv].cls = "MetaProxy"
                       /\ proxies[ev.rv].node = Len(graph)

\* C17: on a proxy without metadata, size(d) appends one call_method 'size'
\* node with arguments (self, d) for every d, 0 included, size() one with
\* arguments (self,), dim() one call_method 'dim' node with arguments (self,);
\* each returns a new proxy for its node.
C17_SizeNode ==
    /\ (ev.op = "size" /\ ~MetaPresent(proxies[ev.p]))
       => OneMethodNode("size", <<NodeV(proxies[ev.p].node)>>
                                  \o (IF ev.d = NoneV THEN <<>> ELSE <<ev.d>>))
    /\ (ev.op = "dim" /\ ~MetaPresent(proxies[ev.p]))
       => OneMethodNode("dim", <<NodeV(proxies[ev.p].node)>>)

\* C18: when trace b ends after trace a, having started while a's wrappers
\* were installed (what b recorded as originals are a's wrappers), no trace
\* is running and every patched name of torch refers to a wrapper of a, not
\* to its original.
C18_OverlapLeavesWrapper ==
    \A a, b \in Tracers :
       (/\ a # b
        /\ Idle
        /\ ev.op = "trace_end"
        /\ ev.t = b
        /\ \A n \in PatchNames :
              patched[b][n][2] = patched[a][n][1] /\ patched[a][n][1].fn = "wrapper")
       => \A n \in PatchNames :
             /\ torchNS[n] = patched[a][n][1]
             /\ torchNS[n].fn = "wrapper"
             /\ torchNS[n] # OrigNS[n]

\* tracer 1 started on the originals, tracer 2 started on 1's wrappers, both
\* have finished, 2 last, and torch.zeros is the wrapper made by tracer 1
C18_Witness ==
    /\ Idle
    /\ ev.op = "trace_end"
    /\ ev.t = 2
    /\ patched[1]["zeros"] = gen_constructor_wrapper(1, OrigFn("zeros"))
    /\ patched[2]["zeros"][2] = patched[1]["zeros"][1]
    /\ torchNS["zeros"] = patched[1]["zeros"][1]
    /\ torchNS["zeros"] # OrigNS["zeros"]

\* C19: for every proxy with the MetaProxy methods, the test of size() and
\* dim() (the attribute exists and is not None) and the test of
\* proxys_to_metas (the attribute exists) say the same, also when the value
\* installed is None.
C19_PresenceAgrees ==
    \A p \in MetaPids : MetaPresent(proxies[p]) <=> MetaOf(proxies[p]).ok

CallKinds == {"call_function", "call_method", "call_module"}

RECURSIVE NodesIn(_)
\* the nodes occurring in an argument of a node, at any depth
NodesIn(v) ==
    IF v.k = "node" THEN {v.n}
    ELSE IF v.k = "list" THEN UNION { NodesIn(v.items[i]) : i \in DOMAIN v.items }
    ELSE {}

\* the nodes a node takes as inputs
InputNodes(n) == NodesIn(ListV(n.args)) \cup NodesIn(ListV(Values(n.kwargs)))

\* C20: a proxy the hook returns for a call_function, call_method or
\* call_module node has _tensor_meta only if every proxy in the request's
\* args and kwargs, at any depth, had it when the request was made; a
\* placeholder has it only if its name is a key of meta_args; so in the graph
\* no node with metadata has an input node without.
C20_MetaFlowsForward ==
    [][/\ (ev'.op = "create_proxy" /\ ev'.exc = "" /\ ev'.rv # 0
             /\ proxies'[ev'.rv].hasMeta)
          => /\ ev'.kind \in CallKinds
                => \A i \in DOMAIN EvProxies' :
                      /\ EvProxies'[i] \in DOMAIN proxies
                      /\ proxies[EvProxies'[i]].cls # "Proxy"
                      /\ proxies[EvProxies'[i]].hasMeta
             /\ ev'.kind = "placeholder" => HasKey(meta_args[ev'.t], ev'.target.name)
             /\ ev'.kind \in CallKinds \cup {"placeholder"}
       /\ \A q \in DOMAIN proxies' :
             (proxies'[q].hasMeta /\ graph'[proxies'[q].node].op \in CallKinds)
             => \A k \in InputNodes(graph'[proxies'[q].node]) :
                   \E r \in DOMAIN proxies' :
                      proxies'[r].node = k /\ proxies'[r].hasMeta]_vars

\* an operation on the result of an earlier operation got metadata, both by
\* replay
C20_Witness ==
    /\ ev.op = "create_proxy"
    /\ ev.exc = ""
    /\ ev.kind = "call_function"
    /\ proxies[ev.rv].hasMeta
    /\ proxies[ev.rv].meta = M23
    /\ EvProxies # <<>>
    /\ \A i \in DOMAIN EvProxies :
          /\ proxies[EvProxies[i]].hasMeta
          /\ graph[proxies[EvProxies[i]].node].op \in CallKinds

====
